---- MODULE Spec2Model ----
(***************************************************************************)
(* Model of the Codex credentials page (CodexCredentialsPage.tsx): the     *)
(* credential list, its derived (normalized and filtered) views, the       *)
(* selection set and the optimistic enable/disable mutator with rollback.  *)
(*                                                                         *)
(* Strings are sequences of one-character strings, so that trim(),         *)
(* toLowerCase() and includes() are computed and not assumed.  An optional *)
(* field is None or Some(v).                                               *)
(***************************************************************************)
EXTENDS Integers, Sequences, FiniteSets, TLC

VARIABLES
    connectionStatus,   \* useAuthStore connectionStatus
    config,             \* useConfigStore config?.codexApiKeys (None when absent)
    configs,            \* useState: the credential list
    loading,            \* useState
    error,              \* useState: '' or a message
    saving,             \* useState: the in-flight-save flag
    hasMounted,         \* useRef
    searchText,         \* useState
    statusFilter,       \* useState
    prefixFilter,       \* useState
    selectedKeys,       \* useState: Set<number>
    loads,              \* fetchConfig('codex-api-key') calls awaited by loadConfigs
    saves,              \* saveCodexConfigs calls awaited by toggleConfig / batchToggle
    emitted,            \* what the last step passed to showNotification
    lastCall,           \* the guarded handler the last step called or settled, or "none"
    filterRuns,         \* the results of applying the filter, then applying it again
    keyStats,           \* useProviderStats: the usage entries by source
    statsLoads,         \* loadKeyStats calls in flight
    refreshes,          \* the Promise.all joins of the handleRefresh calls in flight
    rejection,          \* what the request that failed in the last step was rejected with
    cleared,            \* what the last step passed to clearCache
    refreshAlls         \* the layout's handleRefreshAll calls in flight

vars == <<connectionStatus, config, configs, loading, error, saving, hasMounted,
          searchText, statusFilter, prefixFilter, selectedKeys, loads, saves,
          emitted, lastCall, filterRuns, keyStats, statsLoads, refreshes,
          rejection, cleared, refreshAlls>>

----------------------------------------------------------------------------
(* Bounds *)

\* the longest list the backend delivers
MaxLen == 2
\* saveCodexConfigs calls that may be in flight at once
MaxSaves == 2
\* fetchConfig calls that may be in flight at once
MaxLoads == 2

----------------------------------------------------------------------------
(* Optional values and strings *)

None == [some |-> FALSE]
Some(v) == [some |-> TRUE, val |-> v]

\* x ?? d
OrElse(x, d) == IF x.some THEN x.val ELSE d

\* a rejection: an Error with its message, or any other value
Rejected(isError, message) == [isError |-> isError, message |-> message]

IsSpace(c) == c = " "

LowerChar(c) ==
    CASE c = "A" -> "a"
      [] c = "B" -> "b"
      [] c = "P" -> "p"
      [] OTHER -> c

\* String.prototype.toLowerCase
toLowerCase(s) == [i \in 1..Len(s) |-> LowerChar(s[i])]

RECURSIVE TrimStart(_)
TrimStart(s) ==
    IF s # <<>> /\ IsSpace(Head(s)) THEN TrimStart(Tail(s)) ELSE s

RECURSIVE TrimEnd(_)
TrimEnd(s) ==
    IF s # <<>> /\ IsSpace(s[Len(s)]) THEN TrimEnd(SubSeq(s, 1, Len(s) - 1)) ELSE s

\* String.prototype.trim
trim(s) == TrimEnd(TrimStart(s))

\* String.prototype.includes
includes(s, kw) ==
    \E i \in 0..(Len(s) - Len(kw)) : SubSeq(s, i + 1, i + Len(kw)) = kw

\* Array.prototype.filter with the predicate given as a set of kept positions
RECURSIVE KeepAt(_, _, _)
KeepAt(items, keep, i) ==
    IF i > Len(items) THEN <<>>
    ELSE IF i \in keep THEN <<items[i]>> \o KeepAt(items, keep, i + 1)
    ELSE KeepAt(items, keep, i + 1)

----------------------------------------------------------------------------
(* The disable-all-models rule of an excludedModels list *)

DISABLE_ALL_MODELS_RULE == <<"*">>

hasDisableAllModelsRule(models) ==
    /\ models.some
    /\ \E i \in 1..Len(models.val) : trim(models.val[i]) = DISABLE_ALL_MODELS_RULE

stripDisableAllModelsRule(models) ==
    IF models.some
    THEN KeepAt(models.val,
                {i \in 1..Len(models.val) : trim(models.val[i]) # DISABLE_ALL_MODELS_RULE},
                1)
    ELSE <<>>

withDisableAllModelsRule(models) ==
    Some(Append(stripDisableAllModelsRule(models), DISABLE_ALL_MODELS_RULE))

withoutDisableAllModelsRule(models) ==
    Some(stripDisableAllModelsRule(models))

----------------------------------------------------------------------------
(* Derived views *)

\* KeyStatBucket
Bucket(success, failure) == [success |-> success, failure |-> failure]

AddBucket(a, b) == Bucket(a.success + b.success, a.failure + b.failure)

\* a usage entry of keyStats.bySource
StatsEntry(source, success, failure) ==
    [source |-> source, success |-> success, failure |-> failure]

\* the counters of the entries whose source is key, added up
RECURSIVE BucketOf(_, _)
BucketOf(stats, key) ==
    IF stats = <<>> THEN Bucket(0, 0)
    ELSE AddBucket(IF trim(Head(stats).source) = key
                   THEN Bucket(Head(stats).success, Head(stats).failure)
                   ELSE Bucket(0, 0),
                   BucketOf(Tail(stats), key))

\* the counters under the key and the counters under the prefix, added up
getStatsBySource(apiKey, stats, prefix) ==
    AddBucket(BucketOf(stats, trim(apiKey)),
              IF prefix.some /\ trim(prefix.val) # <<>>
              THEN BucketOf(stats, trim(prefix.val))
              ELSE Bucket(0, 0))

\* credentialItems: each record with its index, its derived disabled flag and
\* its usage counters
CredentialItem(cfg, idx, stats) ==
    [apiKey |-> cfg.apiKey, prefix |-> cfg.prefix, baseUrl |-> cfg.baseUrl,
     excludedModels |-> cfg.excludedModels,
     _index |-> idx,
     _disabled |-> hasDisableAllModelsRule(cfg.excludedModels),
     _stats |-> getStatsBySource(cfg.apiKey, stats, cfg.prefix)]

\* a map that numbers the items from 1
credentialItemsOfOneBased(list, stats) ==
    [i \in 1..Len(list) |-> CredentialItem(list[i], i, stats)]

\* configs.map((cfg, idx) => ...), indices counted from 0 as in the source
credentialItemsOf(list, stats) ==
    [i \in 1..Len(list) |-> CredentialItem(list[i], i - 1, stats)]

MatchesSearch(item, kw) ==
    \/ includes(toLowerCase(item.apiKey), kw)
    \/ includes(toLowerCase(OrElse(item.baseUrl, <<>>)), kw)
    \/ includes(toLowerCase(OrElse(item.prefix, <<>>)), kw)

\* the matches delivered last match first
SearchStageReversed(items, text) ==
    IF trim(text) # <<>>
    THEN LET kept == KeepAt(items,
                            {i \in 1..Len(items) :
                                MatchesSearch(items[i], toLowerCase(trim(text)))},
                            1)
         IN  [k \in 1..Len(kept) |-> kept[Len(kept) + 1 - k]]
    ELSE items

SearchStage(items, text) ==
    IF trim(text) # <<>>
    THEN KeepAt(items,
                {i \in 1..Len(items) : MatchesSearch(items[i], toLowerCase(trim(text)))},
                1)
    ELSE items

\* the 'active' branch written as a loop that starts one item late
StatusStageSkipsFirst(items, status) ==
    IF status = "active"
    THEN KeepAt(items, {i \in 2..Len(items) : ~items[i]._disabled}, 1)
    ELSE IF status = "disabled"
    THEN KeepAt(items, {i \in 1..Len(items) : items[i]._disabled}, 1)
    ELSE items

\* the 'disabled' branch left out
StatusStageActiveOnly(items, status) ==
    IF status = "active"
    THEN KeepAt(items, {i \in 1..Len(items) : ~items[i]._disabled}, 1)
    ELSE items

StatusStage(items, status) ==
    IF status = "active"
    THEN KeepAt(items, {i \in 1..Len(items) : ~items[i]._disabled}, 1)
    ELSE IF status = "disabled"
    THEN KeepAt(items, {i \in 1..Len(items) : items[i]._disabled}, 1)
    ELSE items

\* item.prefix?.trim() === prefixFilter
PrefixMatches(item, pf) == item.prefix.some /\ trim(item.prefix.val) = pf

\* the stage without its `if (prefixFilter)` guard
PrefixStageUnguarded(items, pf) ==
    KeepAt(items, {i \in 1..Len(items) : PrefixMatches(items[i], pf)}, 1)

PrefixStage(items, pf) ==
    IF pf # <<>>
    THEN KeepAt(items, {i \in 1..Len(items) : PrefixMatches(items[i], pf)}, 1)
    ELSE items

\* filteredItems as a function of the items and the filter state
FilterPipeline(items, text, status, pf) ==
    PrefixStage(StatusStage(SearchStage(items, text), status), pf)

credentialItems == credentialItemsOf(configs, keyStats)

\* maskApiKey: the first character of a key longer than one character is
\* kept, every other character is replaced
maskApiKey(key) ==
    [i \in 1..Len(key) |-> IF i = 1 /\ Len(key) > 1 THEN key[i] ELSE "*"]

\* item.prefix || maskApiKey(item.apiKey)
ChartLabel(item) ==
    IF item.prefix.some /\ item.prefix.val # <<>>
    THEN item.prefix.val
    ELSE maskApiKey(item.apiKey)

\* an adapter that leaves out the items without any usage
ChartSeriesUsedOnly(items) ==
    LET used == KeepAt(items,
                       {i \in 1..Len(items) :
                           items[i]._stats.success + items[i]._stats.failure > 0},
                       1)
    IN  [labels |-> [i \in 1..Len(used) |-> ChartLabel(used[i])],
         success |-> [i \in 1..Len(used) |-> used[i]._stats.success],
         failure |-> [i \in 1..Len(used) |-> used[i]._stats.failure]]

\* the labels and the two data arrays that credentialItems.forEach pushes
ChartSeries(items) ==
    [labels |-> [i \in 1..Len(items) |-> ChartLabel(items[i])],
     success |-> [i \in 1..Len(items) |-> items[i]._stats.success],
     failure |-> [i \in 1..Len(items) |-> items[i]._stats.failure]]

chartData == ChartSeries(credentialItems)

filteredItems == FilterPipeline(credentialItems, searchText, statusFilter, prefixFilter)

----------------------------------------------------------------------------
(* Inputs *)

KeyA == [apiKey |-> <<"A", "b">>, prefix |-> None, baseUrl |-> None,
         excludedModels |-> None]

KeyB == [apiKey |-> <<"b">>, prefix |-> Some(<<" ", "p">>), baseUrl |-> Some(<<"a">>),
         excludedModels |-> Some(<< <<"m">>, <<" ", "*">> >>)]

KeyC == [apiKey |-> <<"p">>, prefix |-> Some(<<"P">>), baseUrl |-> None,
         excludedModels |-> Some(<<>>)]

KeyD == [apiKey |-> <<"B">>, prefix |-> Some(<<"p">>), baseUrl |-> None,
         excludedModels |-> Some(<< <<"m">>, <<"*">> >>)]

\* the record the backend holds at position i (counted from 1)
BackendRecord(i) == IF i = 1 THEN KeyA ELSE KeyD

\* what fetchConfig may deliver: the first k records of the backend, or a
\* value that is not an array
FetchResults ==
    {None} \cup {Some([i \in 1..k |-> BackendRecord(i)]) : k \in 0..MaxLen}

\* the lists the filter and the selection are exercised on
ViewRecords == {KeyA, KeyB, KeyC}

ViewLists == UNION {[1..k -> ViewRecords] : k \in 0..MaxLen}

\* what the usage request may deliver
StatsInputs ==
    {<<>>,
     <<StatsEntry(<<"A", "b">>, 1, 0), StatsEntry(<<"p">>, 2, 1),
       StatsEntry(<<"A", "b">>, 0, 1)>>}

\* what a rejected request may be rejected with
RejectInputs == {Rejected(TRUE, "timeout"), Rejected(FALSE, "busy")}

SearchInputs == {<<>>, <<" ">>, <<"A">>, <<" ", "p", " ">>}

StatusInputs == {"all", "active", "disabled"}

PrefixInputs == {<<>>, <<"p">>, <<"P">>}

\* the indices a caller may pass: every position of a full list, and one past it
IndexInputs == 0..MaxLen

\* the indices of the cards a checkbox can belong to
CardInputs == 0..(MaxLen - 1)

----------------------------------------------------------------------------
(* State after construction *)

Init ==
    /\ connectionStatus \in {"connected", "disconnected"}
    /\ config = None
    /\ configs = <<>>
    /\ loading = TRUE
    /\ error = ""
    /\ saving = FALSE
    /\ hasMounted = FALSE
    /\ searchText = <<>>
    /\ statusFilter = "all"
    /\ prefixFilter = <<>>
    /\ selectedKeys = {}
    /\ loads = 0
    /\ saves = <<>>
    /\ emitted = <<>>
    /\ lastCall = "none"
    /\ filterRuns = <<>>
    /\ keyStats = <<>>
    /\ statsLoads = 0
    /\ refreshes = <<>>
    /\ rejection = None
    /\ cleared = <<>>
    /\ refreshAlls = <<>>

disableControls == connectionStatus # "connected"

\* the effect that copies config.codexApiKeys into the list whenever it is set
SyncEffect(cfg, list) == IF cfg.some THEN cfg.val ELSE list

RemoveAt(seq, i) == SubSeq(seq, 1, i - 1) \o SubSeq(seq, i + 1, Len(seq))

filterVars == <<searchText, statusFilter, prefixFilter>>

----------------------------------------------------------------------------
(* Loader *)

\* the synchronous head of loadConfigs: flags set, fetchConfig issued
loadConfigsStart ==
    /\ loading' = TRUE
    /\ error' = ""
    /\ loads' = loads + 1

\* the synchronous head of loadKeyStats: the usage request issued
loadKeyStatsStart == statsLoads' = statsLoads + 1

MountGuardNever == FALSE

\* if (hasMounted.current) return
MountGuard == hasMounted

\* the mount effect, which runs again on every change of its dependencies
mountEffect ==
    /\ lastCall' = "none"
    /\ rejection' = None
    /\ cleared' = <<>>
    /\ emitted' = <<>>
    /\ IF MountGuard
       THEN UNCHANGED <<hasMounted, loading, error, loads, statsLoads, refreshAlls>>
       ELSE /\ hasMounted' = TRUE
            /\ loadConfigsStart
            /\ loadKeyStatsStart
    /\ UNCHANGED <<connectionStatus, config, configs, saving, filterVars,
                   selectedKeys, saves, filterRuns, keyStats, refreshes, refreshAlls>>

\* Promise.all([loadConfigs(), loadKeyStats()]): which of the two has settled
Join(list, stats) == [list |-> list, stats |-> stats]

handleRefresh ==
    /\ hasMounted
    /\ loads < MaxLoads
    /\ statsLoads < MaxLoads
    /\ lastCall' = "none"
    /\ rejection' = None
    /\ cleared' = <<>>
    /\ emitted' = <<>>
    /\ loadConfigsStart
    /\ loadKeyStatsStart
    /\ refreshes' = Append(refreshes, Join(FALSE, FALSE))
    /\ UNCHANGED <<connectionStatus, config, configs, saving, hasMounted, filterVars,
                   selectedKeys, saves, filterRuns, keyStats, refreshAlls>>

\* the handleRefresh calls whose own call of part ("list" or "stats") has not settled
Awaiting(part) == {j \in 1..Len(refreshes) : ~refreshes[j][part]}

\* who may be awaiting a call of part that settles: a handleRefresh (its
\* position), or nobody (0) when the call is one the mount effect started
Owners(part, inFlight) ==
    Awaiting(part) \cup (IF inFlight > Cardinality(Awaiting(part)) THEN {0} ELSE {})

\* a join that settles with the first of its promises
JoinSettledAny(join) == join.list \/ join.stats

\* Promise.all settles once neither promise is pending (neither of the two rejects)
JoinSettled(join) == join.list /\ join.stats

\* the joins after the call of part that owner awaits has settled; a join that
\* has settled ends its handleRefresh
JoinAfter(owner, part) ==
    IF owner = 0 THEN refreshes
    ELSE LET join == [refreshes[owner] EXCEPT ![part] = TRUE]
         IN  IF JoinSettled(join) THEN RemoveAt(refreshes, owner)
             ELSE [refreshes EXCEPT ![owner] = join]

\* a list load that also resets the usage statistics
loadResolvedResettingStats(data) ==
    /\ loads > 0
    /\ lastCall' = "none"
    /\ rejection' = None
    /\ cleared' = <<>>
    /\ emitted' = <<>>
    /\ loads' = loads - 1
    /\ config' = data
    /\ configs' = SyncEffect(data, OrElse(data, <<>>))
    /\ loading' = FALSE
    /\ keyStats' = <<>>
    /\ \E owner \in Owners("list", loads) : refreshes' = JoinAfter(owner, "list")
    /\ UNCHANGED <<connectionStatus, error, saving, hasMounted, filterVars,
                   selectedKeys, saves, filterRuns, statsLoads, refreshAlls>>

\* fetchConfig resolves with data, which the store has taken as its config
loadResolved(data) ==
    /\ loads > 0
    /\ lastCall' = "none"
    /\ rejection' = None
    /\ cleared' = <<>>
    /\ emitted' = <<>>
    /\ loads' = loads - 1
    /\ config' = data
    /\ configs' = SyncEffect(data, OrElse(data, <<>>))
    /\ loading' = FALSE
    /\ \E owner \in Owners("list", loads) : refreshes' = JoinAfter(owner, "list")
    /\ UNCHANGED <<connectionStatus, error, saving, hasMounted, filterVars,
                   selectedKeys, saves, filterRuns, keyStats, statsLoads, refreshAlls>>

\* err instanceof Error ? err.message : t('notification.refresh_failed')
LoadErrorMessage(reason) ==
    IF reason.isError THEN reason.message ELSE "refresh_failed"

ErrorAfterLoadKept(reason) == error

\* setError(msg) in the catch branch of loadConfigs
ErrorAfterLoad(reason) == LoadErrorMessage(reason)

loadRejected(reason) ==
    /\ loads > 0
    /\ lastCall' = "loadConfigs:rejected"
    /\ rejection' = Some(reason)
    /\ cleared' = <<>>
    /\ emitted' = <<>>
    /\ loads' = loads - 1
    /\ error' = ErrorAfterLoad(reason)
    /\ loading' = FALSE
    /\ \E owner \in Owners("list", loads) : refreshes' = JoinAfter(owner, "list")
    /\ UNCHANGED <<connectionStatus, config, configs, saving, hasMounted, filterVars,
                   selectedKeys, saves, filterRuns, keyStats, statsLoads, refreshAlls>>

\* the usage request resolves: the statistics are replaced as a whole
statsResolved(stats) ==
    /\ statsLoads > 0
    /\ lastCall' = "none"
    /\ rejection' = None
    /\ cleared' = <<>>
    /\ emitted' = <<>>
    /\ statsLoads' = statsLoads - 1
    /\ keyStats' = stats
    /\ \E owner \in Owners("stats", statsLoads) : refreshes' = JoinAfter(owner, "stats")
    /\ UNCHANGED <<connectionStatus, config, configs, loading, error, saving,
                   hasMounted, filterVars, selectedKeys, loads, saves, filterRuns, refreshAlls>>

\* the usage request fails: swallowed, the statistics stay as they were
statsRejected ==
    /\ statsLoads > 0
    /\ lastCall' = "none"
    /\ rejection' = None
    /\ cleared' = <<>>
    /\ emitted' = <<>>
    /\ statsLoads' = statsLoads - 1
    /\ \E owner \in Owners("stats", statsLoads) : refreshes' = JoinAfter(owner, "stats")
    /\ UNCHANGED <<connectionStatus, config, configs, loading, error, saving,
                   hasMounted, filterVars, selectedKeys, loads, saves, filterRuns,
                   keyStats, refreshAlls>>

\* the config store is written from outside the page (the layout's fetchConfig);
\* the sync effect then copies config.codexApiKeys into the list
configSync(data) ==
    /\ hasMounted
    /\ lastCall' = "none"
    /\ rejection' = None
    /\ cleared' = <<>>
    /\ emitted' = <<>>
    /\ config' = data
    /\ configs' = SyncEffect(data, configs)
    /\ UNCHANGED <<connectionStatus, loading, error, saving, hasMounted, filterVars,
                   selectedKeys, loads, saves, filterRuns,
                   keyStats, statsLoads, refreshes, refreshAlls>>

connectionChanged(status) ==
    /\ status # connectionStatus
    /\ lastCall' = "none"
    /\ rejection' = None
    /\ cleared' = <<>>
    /\ emitted' = <<>>
    /\ connectionStatus' = status
    /\ UNCHANGED <<config, configs, loading, error, saving, hasMounted, filterVars,
                   selectedKeys, loads, saves, filterRuns,
                   keyStats, statsLoads, refreshes, refreshAlls>>

----------------------------------------------------------------------------
(* Mutator *)

\* { ...current, excludedModels: nextExcluded }
NextItem(current, enabled) ==
    [current EXCEPT !.excludedModels =
        IF enabled
        THEN withoutDisableAllModelsRule(current.excludedModels)
        ELSE withDisableAllModelsRule(current.excludedModels)]

\* configs.map((item, idx) => (idx === index ? nextItem : item))
ToggleNextList(list, index, enabled) ==
    [i \in 1..Len(list) |->
        IF i - 1 = index THEN NextItem(list[i], enabled) ELSE list[i]]

BatchNextListAll(list, selected, enabled) ==
    [i \in 1..Len(list) |-> NextItem(list[i], enabled)]

\* configs.map((item, idx) => selectedKeys.has(idx) ? {...} : item)
BatchNextList(list, selected, enabled) ==
    [i \in 1..Len(list) |->
        IF (i - 1) \in selected THEN NextItem(list[i], enabled) ELSE list[i]]

\* what the continuation after `await saveCodexConfigs(nextList)` holds: the
\* payload of the call (nextList) and the handler's closure.  listAtCall is
\* history, read by no action: the list the page showed when the handler ran.
SaveCall(kind, index, enabled, previousList, nextList, count, listAtCall) ==
    [kind |-> kind, index |-> index, enabled |-> enabled,
     previousList |-> previousList, nextList |-> nextList, count |-> count,
     listAtCall |-> listAtCall]

ToggleGuardNoSaving == disableControls

ToggleGuard == disableControls \/ saving

BatchGuardNoControls == saving \/ Cardinality(selectedKeys) = 0

BatchGuard == disableControls \/ saving \/ Cardinality(selectedKeys) = 0

SavingAfterMissingKept == TRUE

\* if (!current) { setSaving(false); return; }
SavingAfterMissing == FALSE

toggleConfig(index, enabled) ==
    /\ hasMounted
    /\ lastCall' = "toggleConfig"
    /\ rejection' = None
    /\ emitted' = <<>>
    /\ IF ToggleGuard
       THEN /\ UNCHANGED <<config, configs, saving, saves>>
            /\ cleared' = <<>>
       ELSE IF index >= Len(configs)
       THEN \* !current: setSaving(true), then setSaving(false) and return
            /\ saving' = SavingAfterMissing
            /\ UNCHANGED <<config, configs, saves>>
            /\ cleared' = <<>>
       ELSE LET nextList == ToggleNextList(configs, index, enabled)
            IN  /\ Len(saves) < MaxSaves
                /\ cleared' = <<"codex-api-key">>
                /\ saving' = TRUE
                /\ config' = Some(nextList)
                /\ configs' = SyncEffect(Some(nextList), nextList)
                /\ saves' = Append(saves,
                                   SaveCall("single", index, enabled, configs,
                                            nextList, 0, configs))
    /\ UNCHANGED <<connectionStatus, loading, error, hasMounted, filterVars,
                   selectedKeys, loads, filterRuns,
                   keyStats, statsLoads, refreshes, refreshAlls>>

batchToggle(enabled) ==
    /\ hasMounted
    /\ lastCall' = "batchToggle"
    /\ rejection' = None
    /\ emitted' = <<>>
    /\ IF BatchGuard
       THEN /\ UNCHANGED <<config, configs, saving, saves>>
            /\ cleared' = <<>>
       ELSE LET nextList == BatchNextList(configs, selectedKeys, enabled)
            IN  /\ Len(saves) < MaxSaves
                /\ cleared' = <<"codex-api-key">>
                /\ saving' = TRUE
                /\ config' = Some(nextList)
                /\ configs' = SyncEffect(Some(nextList), nextList)
                /\ saves' = Append(saves,
                                   SaveCall("batch", 0, enabled, configs, nextList,
                                            Cardinality(selectedKeys), configs))
    /\ UNCHANGED <<connectionStatus, loading, error, hasMounted, filterVars,
                   selectedKeys, loads, filterRuns,
                   keyStats, statsLoads, refreshes, refreshAlls>>

\* showNotification(message, type): the text key, what is interpolated into or
\* appended to it, and the severity
Notification(message, type, count, detail) ==
    [message |-> message, type |-> type, count |-> count, detail |-> detail]

SuccessNotification(call) ==
    IF call.kind = "batch"
    THEN Notification("batch_success", "success", call.count, "")
    ELSE Notification(IF call.enabled THEN "config_enabled" ELSE "config_disabled",
                      "success", 0, "")

SelectionAfterSaveKept(call, selected) == selected

\* setSelectedKeys(new Set()) after a resolved batch save
SelectionAfterSave(call, selected) == IF call.kind = "batch" THEN {} ELSE selected

SettledName(call) ==
    IF call.kind = "batch" THEN "batchToggle:settled" ELSE "toggleConfig:settled"

\* the try branch after the await, and the finally
SavingAfterSettleKept == saving

\* finally { setSaving(false) }
SavingAfterSettle == FALSE

saveResolved(i) ==
    /\ i \in 1..Len(saves)
    /\ lastCall' = SettledName(saves[i])
    /\ rejection' = None
    /\ cleared' = <<>>
    /\ saves' = RemoveAt(saves, i)
    /\ emitted' = <<SuccessNotification(saves[i])>>
    /\ selectedKeys' = SelectionAfterSave(saves[i], selectedKeys)
    /\ saving' = SavingAfterSettle
    /\ UNCHANGED <<connectionStatus, config, configs, loading, error, hasMounted,
                   filterVars, loads, filterRuns,
                   keyStats, statsLoads, refreshes, refreshAlls>>

RollbackKeepsList(call, list) == list

\* a rollback that spares a list replaced since the call
RollbackUnlessReplaced(call, list) ==
    IF list = call.nextList THEN call.previousList ELSE list

\* setConfigs(previousList); updateConfigValue('codex-api-key', previousList)
Rollback(call, list) == call.previousList

\* err instanceof Error ? err.message : ''
SaveErrorMessage(reason) == IF reason.isError THEN reason.message ELSE ""

\* showNotification(`${t('notification.update_failed')}: ${msg}`, 'error')
ErrorNotification(reason) ==
    Notification("update_failed", "error", 0, SaveErrorMessage(reason))

\* a catch branch that issues the call again
saveRejectedRetrying(i, reason) ==
    /\ i \in 1..Len(saves)
    /\ lastCall' = SettledName(saves[i])
    /\ rejection' = Some(reason)
    /\ cleared' = <<"codex-api-key">>
    /\ saves' = Append(RemoveAt(saves, i), saves[i])
    /\ emitted' = <<>>
    /\ UNCHANGED <<connectionStatus, config, configs, loading, error, saving,
                   hasMounted, filterVars, selectedKeys, loads, filterRuns,
                   keyStats, statsLoads, refreshes, refreshAlls>>

\* the catch branch after the await, and the finally
saveRejected(i, reason) ==
    /\ i \in 1..Len(saves)
    /\ lastCall' = SettledName(saves[i])
    /\ rejection' = Some(reason)
    /\ cleared' = <<"codex-api-key">>
    /\ saves' = RemoveAt(saves, i)
    /\ config' = Some(Rollback(saves[i], configs))
    /\ configs' = SyncEffect(config', Rollback(saves[i], configs))
    /\ emitted' = <<ErrorNotification(reason)>>
    /\ saving' = SavingAfterSettle
    /\ UNCHANGED <<connectionStatus, loading, error, hasMounted, filterVars,
                   selectedKeys, loads, filterRuns,
                   keyStats, statsLoads, refreshes, refreshAlls>>

----------------------------------------------------------------------------
(* Selection set *)

\* new Set(filteredItems.map((i) => i._index))
FilteredIds(items) == {items[i]._index : i \in 1..Len(items)}

SelectAllResultUnion(selected, items) ==
    IF Cardinality(selected) = Len(items) THEN {} ELSE selected \cup FilteredIds(items)

SelectAllResult(selected, items) ==
    IF Cardinality(selected) = Len(items) THEN {} ELSE FilteredIds(items)

toggleSelectAll ==
    /\ hasMounted
    /\ lastCall' = "toggleSelectAll"
    /\ rejection' = None
    /\ cleared' = <<>>
    /\ emitted' = <<>>
    /\ selectedKeys' = SelectAllResult(selectedKeys, filteredItems)
    /\ UNCHANGED <<connectionStatus, config, configs, loading, error, saving,
                   hasMounted, filterVars, loads, saves, filterRuns,
                   keyStats, statsLoads, refreshes, refreshAlls>>

SelectResult(selected, index) ==
    IF index \in selected THEN selected \ {index} ELSE selected \cup {index}

\* called by the checkbox of a card, and a card is rendered for each filtered item
toggleSelect(index) ==
    /\ hasMounted
    /\ index \in FilteredIds(filteredItems)
    /\ lastCall' = "none"
    /\ rejection' = None
    /\ cleared' = <<>>
    /\ emitted' = <<>>
    /\ selectedKeys' = SelectResult(selectedKeys, index)
    /\ UNCHANGED <<connectionStatus, config, configs, loading, error, saving,
                   hasMounted, filterVars, loads, saves, filterRuns,
                   keyStats, statsLoads, refreshes, refreshAlls>>

----------------------------------------------------------------------------
(* Filter state *)

\* a setter that also drops the selected ids its new view no longer shows
setSearchTextPruning(value) ==
    /\ hasMounted
    /\ lastCall' = "none"
    /\ rejection' = None
    /\ cleared' = <<>>
    /\ emitted' = <<>>
    /\ searchText' = value
    /\ filterRuns' = <<>>
    /\ selectedKeys' = selectedKeys \cap
           FilteredIds(FilterPipeline(credentialItems, value, statusFilter, prefixFilter))
    /\ UNCHANGED <<connectionStatus, config, configs, loading, error, saving,
                   hasMounted, statusFilter, prefixFilter, loads, saves,
                   keyStats, statsLoads, refreshes, refreshAlls>>

\* the three setters are plain state setters; the memoized filtered list is
\* computed anew after each
setSearchText(value) ==
    /\ hasMounted
    /\ lastCall' = "none"
    /\ rejection' = None
    /\ cleared' = <<>>
    /\ emitted' = <<>>
    /\ searchText' = value
    /\ filterRuns' = <<>>
    /\ UNCHANGED <<connectionStatus, config, configs, loading, error, saving,
                   hasMounted, statusFilter, prefixFilter, selectedKeys, loads, saves,
                   keyStats, statsLoads, refreshes, refreshAlls>>

setStatusFilter(value) ==
    /\ hasMounted
    /\ lastCall' = "none"
    /\ rejection' = None
    /\ cleared' = <<>>
    /\ emitted' = <<>>
    /\ statusFilter' = value
    /\ filterRuns' = <<>>
    /\ UNCHANGED <<connectionStatus, config, configs, loading, error, saving,
                   hasMounted, searchText, prefixFilter, selectedKeys, loads, saves,
                   keyStats, statsLoads, refreshes, refreshAlls>>

setPrefixFilter(value) ==
    /\ hasMounted
    /\ lastCall' = "none"
    /\ rejection' = None
    /\ cleared' = <<>>
    /\ emitted' = <<>>
    /\ prefixFilter' = value
    /\ filterRuns' = <<>>
    /\ UNCHANGED <<connectionStatus, config, configs, loading, error, saving,
                   hasMounted, searchText, statusFilter, selectedKeys, loads, saves,
                   keyStats, statsLoads, refreshes, refreshAlls>>

\* the filter applied to the normalized list, and then to its own result
applyFilter ==
    /\ hasMounted
    /\ Len(filterRuns) < 2
    /\ lastCall' = "none"
    /\ rejection' = None
    /\ cleared' = <<>>
    /\ emitted' = <<>>
    /\ filterRuns' =
         Append(filterRuns,
                FilterPipeline(IF filterRuns = <<>> THEN credentialItems
                               ELSE filterRuns[Len(filterRuns)],
                               searchText, statusFilter, prefixFilter))
    /\ UNCHANGED <<connectionStatus, config, configs, loading, error, saving,
                   hasMounted, filterVars, selectedKeys, loads, saves,
                   keyStats, statsLoads, refreshes, refreshAlls>>

----------------------------------------------------------------------------
(* The layout's refresh-all (MainLayout.tsx) *)

\* what a promise of the layout is rejected with: a string, an Error with its
\* message, or any other value
Reason(kind, message) == [kind |-> kind, message |-> message]

RefreshRejectInputs ==
    {Reason("Error", "timeout"), Reason("string", "busy"), Reason("other", "")}

\* the state of a promise passed to Promise.allSettled
Pending == [status |-> "pending"]

Fulfilled == [status |-> "fulfilled"]

RejectedWith(reason) == [status |-> "rejected", reason |-> reason]

\* a handleRefreshAll call awaiting
\* Promise.allSettled([fetchConfig(undefined, true), triggerHeaderRefresh()])
RefreshAll(fetch, trigger) == [fetch |-> fetch, trigger |-> trigger]

\* handleRefreshAll up to its await: clearCache() and the two requests started
handleRefreshAll ==
    /\ Len(refreshAlls) < MaxLoads
    /\ lastCall' = "none"
    /\ rejection' = None
    /\ cleared' = <<"all">>
    /\ emitted' = <<>>
    /\ refreshAlls' = Append(refreshAlls, RefreshAll(Pending, Pending))
    /\ UNCHANGED <<connectionStatus, config, configs, loading, error, saving,
                   hasMounted, filterVars, selectedKeys, loads, saves, filterRuns,
                   keyStats, statsLoads, refreshes>>

\* typeof reason === 'string' ? reason : reason instanceof Error ? reason.message : ''
RefreshAllMessage(reason) ==
    IF reason.kind = "string" THEN reason.message
    ELSE IF reason.kind = "Error" THEN reason.message
    ELSE ""

RefreshAllNotificationFetchOnly(results) ==
    IF results[1].status = "rejected"
    THEN Notification("refresh_failed", "error", 0,
                      RefreshAllMessage(results[1].reason))
    ELSE Notification("data_refreshed", "success", 0, "")

\* results.find(rejected): the error notification with the message of the first
\* rejected result, or else the success notification
RefreshAllNotification(results) ==
    LET rejected == {i \in 1..Len(results) : results[i].status = "rejected"}
    IN  IF rejected # {}
        THEN LET first == CHOOSE i \in rejected : \A k \in rejected : i <= k
             IN  Notification("refresh_failed", "error", 0,
                              RefreshAllMessage(results[first].reason))
        ELSE Notification("data_refreshed", "success", 0, "")

\* Promise.allSettled settles once neither promise is pending
RefreshAllSettled(call) ==
    /\ call.fetch.status # "pending"
    /\ call.trigger.status # "pending"

\* one of the two promises of call j has settled: the continuation of
\* handleRefreshAll runs if the other one has settled too
RefreshAllAfter(j, call) ==
    IF RefreshAllSettled(call)
    THEN /\ refreshAlls' = RemoveAt(refreshAlls, j)
         /\ emitted' = <<RefreshAllNotification(<<call.fetch, call.trigger>>)>>
    ELSE /\ refreshAlls' = [refreshAlls EXCEPT ![j] = call]
         /\ emitted' = <<>>

\* the forced fetchConfig resolves: the store holds the fetched configuration
\* and the page's sync effect copies config.codexApiKeys into the list
fetchAllResolved(j, data) ==
    /\ j \in 1..Len(refreshAlls)
    /\ refreshAlls[j].fetch = Pending
    /\ lastCall' = "none"
    /\ rejection' = None
    /\ cleared' = <<>>
    /\ config' = data
    /\ configs' = IF hasMounted THEN SyncEffect(data, configs) ELSE configs
    /\ RefreshAllAfter(j, [refreshAlls[j] EXCEPT !.fetch = Fulfilled])
    /\ UNCHANGED <<connectionStatus, loading, error, saving, hasMounted, filterVars,
                   selectedKeys, loads, saves, filterRuns,
                   keyStats, statsLoads, refreshes>>

fetchAllRejected(j, reason) ==
    /\ j \in 1..Len(refreshAlls)
    /\ refreshAlls[j].fetch = Pending
    /\ lastCall' = "none"
    /\ rejection' = Some(reason)
    /\ cleared' = <<>>
    /\ RefreshAllAfter(j, [refreshAlls[j] EXCEPT !.fetch = RejectedWith(reason)])
    /\ UNCHANGED <<connectionStatus, config, configs, loading, error, saving,
                   hasMounted, filterVars, selectedKeys, loads, saves, filterRuns,
                   keyStats, statsLoads, refreshes>>

\* the promise of triggerHeaderRefresh() is fulfilled
triggerResolved(j) ==
    /\ j \in 1..Len(refreshAlls)
    /\ refreshAlls[j].trigger = Pending
    /\ lastCall' = "none"
    /\ rejection' = None
    /\ cleared' = <<>>
    /\ RefreshAllAfter(j, [refreshAlls[j] EXCEPT !.trigger = Fulfilled])
    /\ UNCHANGED <<connectionStatus, config, configs, loading, error, saving,
                   hasMounted, filterVars, selectedKeys, loads, saves, filterRuns,
                   keyStats, statsLoads, refreshes>>

\* the promise of triggerHeaderRefresh() is rejected
triggerRejected(j, reason) ==
    /\ j \in 1..Len(refreshAlls)
    /\ refreshAlls[j].trigger = Pending
    /\ lastCall' = "none"
    /\ rejection' = Some(reason)
    /\ cleared' = <<>>
    /\ RefreshAllAfter(j, [refreshAlls[j] EXCEPT !.trigger = RejectedWith(reason)])
    /\ UNCHANGED <<connectionStatus, config, configs, loading, error, saving,
                   hasMounted, filterVars, selectedKeys, loads, saves, filterRuns,
                   keyStats, statsLoads, refreshes>>

----------------------------------------------------------------------------
(* Specifications *)

\* the page from construction on with its first load, its mutator and its
\* selection; the filter stays in its initial state and the usage request of
\* the mount effect stays in flight
Next ==
    \/ mountEffect
    \/ \E data \in FetchResults : loadResolved(data)
    \/ \E reason \in RejectInputs : loadRejected(reason)
    \/ \E data \in FetchResults : configSync(data)
    \/ \E status \in {"connected", "disconnected"} : connectionChanged(status)
    \/ \E index \in IndexInputs, enabled \in BOOLEAN : toggleConfig(index, enabled)
    \/ \E enabled \in BOOLEAN : batchToggle(enabled)
    \/ \E i \in 1..MaxSaves : saveResolved(i)
    \/ \E i \in 1..MaxSaves, reason \in RejectInputs : saveRejected(i, reason)
    \/ toggleSelectAll
    \/ \E index \in CardInputs : toggleSelect(index)

Spec == Init /\ [][Next]_vars

\* the loader: the mount effect, the refreshes, the list loads and the usage
\* loads in any order, and the config store written from outside
NextLoad ==
    \/ mountEffect
    \/ handleRefresh
    \/ \E data \in FetchResults : loadResolved(data)
    \/ \E reason \in RejectInputs : loadRejected(reason)
    \/ \E stats \in StatsInputs : statsResolved(stats)
    \/ statsRejected
    \/ \E data \in FetchResults : configSync(data)

SpecLoad == Init /\ [][NextLoad]_vars

\* a persistence call in flight settles
SaveSettles ==
    \E i \in 1..MaxSaves :
        saveResolved(i) \/ \E reason \in RejectInputs : saveRejected(i, reason)

\* the page once mounted, showing a list the backend delivered
InitSettling ==
    /\ connectionStatus \in {"connected", "disconnected"}
    /\ config \in {data \in FetchResults : data.some}
    /\ configs = config.val
    /\ loading = FALSE
    /\ error = ""
    /\ saving = FALSE
    /\ hasMounted = TRUE
    /\ searchText = <<>>
    /\ statusFilter = "all"
    /\ prefixFilter = <<>>
    /\ selectedKeys = {}
    /\ loads = 0
    /\ saves = <<>>
    /\ emitted = <<>>
    /\ lastCall = "none"
    /\ filterRuns = <<>>
    /\ keyStats = <<>>
    /\ statsLoads = 0
    /\ refreshes = <<>>
    /\ rejection = None
    /\ cleared = <<>>
    /\ refreshAlls = <<>>

\* the mutator and the selection it reads
NextSettling ==
    \/ \E status \in {"connected", "disconnected"} : connectionChanged(status)
    \/ \E index \in IndexInputs, enabled \in BOOLEAN : toggleConfig(index, enabled)
    \/ \E enabled \in BOOLEAN : batchToggle(enabled)
    \/ \E i \in 1..MaxSaves : saveResolved(i)
    \/ \E i \in 1..MaxSaves, reason \in RejectInputs : saveRejected(i, reason)
    \/ \E index \in CardInputs : toggleSelect(index)

\* the mutator when every persistence call settles in the end
SpecSettling == InitSettling /\ [][NextSettling]_vars /\ WF_vars(SaveSettles)

\* the page once mounted and loaded, showing any list
InitView ==
    /\ connectionStatus = "connected"
    /\ configs \in ViewLists
    /\ config = Some(configs)
    /\ loading = FALSE
    /\ error = ""
    /\ saving = FALSE
    /\ hasMounted = TRUE
    /\ searchText = <<>>
    /\ statusFilter = "all"
    /\ prefixFilter = <<>>
    /\ selectedKeys = {}
    /\ loads = 0
    /\ saves = <<>>
    /\ emitted = <<>>
    /\ lastCall = "none"
    /\ filterRuns = <<>>
    /\ keyStats \in StatsInputs
    /\ statsLoads = 0
    /\ refreshes = <<>>
    /\ rejection = None
    /\ cleared = <<>>
    /\ refreshAlls = <<>>

\* the filter, its setters and the selection over a loaded list
NextView ==
    \/ \E value \in SearchInputs : setSearchText(value)
    \/ \E value \in StatusInputs : setStatusFilter(value)
    \/ \E value \in PrefixInputs : setPrefixFilter(value)
    \/ applyFilter
    \/ toggleSelectAll
    \/ \E index \in CardInputs : toggleSelect(index)

SpecView == InitView /\ [][NextView]_vars

\* the layout's refresh-all over a mounted page
NextRefreshAll ==
    \/ handleRefreshAll
    \/ \E j \in 1..MaxLoads, data \in FetchResults : fetchAllResolved(j, data)
    \/ \E j \in 1..MaxLoads, reason \in RefreshRejectInputs : fetchAllRejected(j, reason)
    \/ \E j \in 1..MaxLoads : triggerResolved(j)
    \/ \E j \in 1..MaxLoads, reason \in RefreshRejectInputs : triggerRejected(j, reason)

SpecRefreshAll == InitSettling /\ [][NextRefreshAll]_vars

----------------------------------------------------------------------------
(* Claims *)

IsDisabled(cfg) == hasDisableAllModelsRule(cfg.excludedModels)

SameIdentity(a, b) ==
    a.apiKey = b.apiKey /\ a.prefix = b.prefix /\ a.baseUrl = b.baseUrl

\* after is before with the records at the positions in targets put in the
\* state asked for, and every other record, the length and the order as before
OnlyTargetsSet(before, after, targets, enabled) ==
    /\ Len(after) = Len(before)
    /\ \A j \in 1..Len(before) :
         IF (j - 1) \in targets
         THEN IsDisabled(after[j]) = ~enabled /\ SameIdentity(after[j], before[j])
         ELSE after[j] = before[j]

\* this step is the continuation of call, ending with a notification of type
SettledWith(call, type) ==
    /\ \E i \in 1..Len(saves) : saves[i] = call /\ saves' = RemoveAt(saves, i)
    /\ Len(emitted') = 1
    /\ emitted'[1].type = type

InFlight == {saves[i] : i \in 1..Len(saves)}

Rejection(name) ==
    (lastCall' = name) =>
        /\ UNCHANGED <<connectionStatus, config, configs, loading, error, saving,
                       hasMounted, filterVars, selectedKeys, loads, saves, filterRuns,
                       keyStats, statsLoads, refreshes, refreshAlls>>
        /\ emitted' = <<>>

\* C1: when the persistence call of an accepted toggleConfig fails, the list
\* after the continuation has run equals the list shown when toggleConfig was
\* called.
C1_ToggleRollback ==
    [][\A call \in InFlight :
         (call.kind = "single" /\ SettledWith(call, "error"))
             => configs' = call.listAtCall]_vars

C1_Witness ==
    /\ lastCall = "toggleConfig:settled"
    /\ emitted # <<>> /\ emitted[1].type = "error"
    /\ configs # <<>>
    /\ ~saving

\* C2: when the persistence call of an accepted toggleConfig succeeds, the list
\* after the continuation has run equals the list shown at the call with only
\* the target record put in the requested state; every other record, the
\* length and the order are unchanged.
C2_ToggleSuccess ==
    [][\A call \in InFlight :
         (call.kind = "single" /\ SettledWith(call, "success"))
             => OnlyTargetsSet(call.listAtCall, configs', {call.index},
                               call.enabled)]_vars

\* C3: at most one persistence call is in flight, and a toggleConfig or
\* batchToggle called while one is in flight changes nothing: no state, no new
\* call, no notification, and the call in flight stays as it is.
C3_SingleInFlight ==
    /\ [](Len(saves) <= 1)
    /\ [][saves # <<>> => (Rejection("toggleConfig") /\ Rejection("batchToggle"))]_vars

C3_Witness ==
    /\ lastCall = "batchToggle"
    /\ Len(saves) = 1
    /\ saves[1].kind = "single"
    /\ ~disableControls
    /\ selectedKeys # {}

\* C4: while the connection status is not 'connected', toggleConfig and
\* batchToggle change neither the list, the saving flag, the selection nor the
\* config store, issue no persistence call and emit no notification.
C4_ControlsDisabled ==
    [][disableControls => (Rejection("toggleConfig") /\ Rejection("batchToggle"))]_vars

C4_Witness ==
    /\ lastCall \in {"toggleConfig", "batchToggle"}
    /\ disableControls
    /\ ~saving
    /\ saves = <<>>
    /\ selectedKeys # {}
    /\ configs # <<>>

\* C5: an accepted batchToggle issues exactly one persistence call, carrying
\* the whole list with exactly the selected positions put in the target state;
\* when that call fails the list is the one shown before the batch.
C5_BatchWholeList ==
    [][/\ (lastCall' = "batchToggle" /\ ~disableControls /\ ~saving
              /\ selectedKeys # {})
          => /\ Len(saves') = Len(saves) + 1
             /\ SubSeq(saves', 1, Len(saves)) = saves
             /\ OnlyTargetsSet(configs, saves'[Len(saves')].nextList,
                               selectedKeys, saves'[Len(saves')].enabled)
             /\ configs' = saves'[Len(saves')].nextList
       /\ \A call \in InFlight :
            (call.kind = "batch" /\ SettledWith(call, "error"))
                => configs' = call.listAtCall]_vars

C5_Witness ==
    /\ lastCall = "batchToggle:settled"
    /\ emitted # <<>> /\ emitted[1].type = "error"
    /\ Len(configs) = 2
    /\ Cardinality(selectedKeys) = 1

\* C6: batchToggle leaves the selection as it is when it is called and when its
\* persistence call fails; the selection is emptied when the call resolves.
C6_BatchSelection ==
    [][/\ (lastCall' = "batchToggle") => selectedKeys' = selectedKeys
       /\ \A call \in InFlight :
            /\ (call.kind = "batch" /\ SettledWith(call, "success"))
                   => selectedKeys' = {}
            /\ (call.kind = "batch" /\ SettledWith(call, "error"))
                   => selectedKeys' = selectedKeys]_vars

C6_Witness ==
    /\ lastCall = "batchToggle:settled"
    /\ emitted # <<>> /\ emitted[1].type = "success"
    /\ selectedKeys = {}
    /\ configs # <<>>

\* C7: toggleSelectAll empties the selection when its size equals the length of
\* the filtered list and otherwise makes it exactly the filtered ids; a second
\* call right after one that selected the filtered ids empties the selection.
C7_ToggleAll ==
    [][(lastCall' = "toggleSelectAll") =>
          /\ selectedKeys' = IF Cardinality(selectedKeys) = Len(filteredItems)
                             THEN {}
                             ELSE {filteredItems[i]._index : i \in 1..Len(filteredItems)}
          /\ (lastCall = "toggleSelectAll"
                /\ selectedKeys = {filteredItems[i]._index : i \in 1..Len(filteredItems)})
             => selectedKeys' = {}]_vars

C7_Witness ==
    /\ lastCall = "toggleSelectAll"
    /\ selectedKeys = {}
    /\ Len(filteredItems) = 1
    /\ Len(configs) = 2

\* C8: a change of the search text, the status filter or the prefix filter
\* leaves the selection as it is, whether or not the selected ids are still in
\* the filtered view.
C8_SelectionIndependent ==
    [][(filterVars' # filterVars) => selectedKeys' = selectedKeys]_vars

C8_Witness ==
    /\ filterVars # <<<<>>, "all", <<>>>>
    /\ \E k \in selectedKeys :
         /\ k < Len(configs)
         /\ k \notin {filteredItems[i]._index : i \in 1..Len(filteredItems)}

IsBlank(text) == \A i \in 1..Len(text) : text[i] = " "

PassesStatus(item) ==
    \/ statusFilter = "all"
    \/ statusFilter = "active" /\ ~item._disabled
    \/ statusFilter = "disabled" /\ item._disabled

PassesPrefix(item) == item.prefix.some /\ trim(item.prefix.val) = prefixFilter

PassesSearch(item) ==
    \E field \in {item.apiKey, OrElse(item.baseUrl, <<>>), OrElse(item.prefix, <<>>)} :
        includes(toLowerCase(field), toLowerCase(trim(searchText)))

\* C9: with a blank search text, status 'all' and an empty prefix filter the
\* filter returns the list it was given; a blank search text alone leaves
\* exactly what the status and prefix stages keep, and an empty prefix filter
\* alone leaves exactly what the search and status stages keep.
C9_FilterIdentity ==
    Len(filterRuns) >= 1 =>
        LET items == credentialItems
            all == 1..Len(items)
        IN  /\ (IsBlank(searchText) /\ statusFilter = "all" /\ prefixFilter = <<>>)
                   => filterRuns[1] = items
            /\ (IsBlank(searchText) /\ prefixFilter # <<>>)
                   => filterRuns[1] =
                        KeepAt(items, {i \in all : PassesStatus(items[i])
                                                   /\ PassesPrefix(items[i])}, 1)
            /\ (~IsBlank(searchText) /\ prefixFilter = <<>>)
                   => filterRuns[1] =
                        KeepAt(items, {i \in all : PassesSearch(items[i])
                                                   /\ PassesStatus(items[i])}, 1)
            /\ (IsBlank(searchText) /\ prefixFilter = <<>>)
                   => filterRuns[1] =
                        KeepAt(items, {i \in all : PassesStatus(items[i])}, 1)

C9_Witness ==
    /\ Len(filterRuns) >= 1
    /\ searchText = <<" ">>
    /\ statusFilter = "all"
    /\ prefixFilter = <<>>
    /\ Len(filterRuns[1]) = 2

\* C10: applying the filter to its own result, under the same filter state,
\* returns that result.
C10_FilterIdempotent ==
    Len(filterRuns) = 2 => filterRuns[2] = filterRuns[1]

C10_Witness ==
    /\ Len(filterRuns) = 2
    /\ Len(filterRuns[1]) = 1
    /\ Len(configs) = 2
    /\ statusFilter = "active"

\* what the three stages test of one item under the current filter state
KeptBySearch(item) == IsBlank(searchText) \/ PassesSearch(item)

KeptByPrefix(item) == prefixFilter = <<>> \/ PassesPrefix(item)

\* C11: the filtered list is a subsequence of the normalized list: each of its
\* items is the item of the normalized list at its own index, the indices
\* increase strictly, and the items kept are exactly those that pass the search,
\* the status and the prefix test.
C11_FilterNarrows ==
    Len(filterRuns) >= 1 =>
        LET items == credentialItems
            out == filterRuns[1]
        IN  /\ \A k \in 1..Len(out) :
                 /\ out[k]._index + 1 \in 1..Len(items)
                 /\ out[k] = items[out[k]._index + 1]
            /\ \A k \in 1..(Len(out) - 1) : out[k]._index < out[k + 1]._index
            /\ {out[k]._index + 1 : k \in 1..Len(out)} =
                   {i \in 1..Len(items) : /\ KeptBySearch(items[i])
                                          /\ PassesStatus(items[i])
                                          /\ KeptByPrefix(items[i])}

C11_Witness ==
    /\ Len(filterRuns) >= 1
    /\ ~IsBlank(searchText)
    /\ Len(filterRuns[1]) = 2
    /\ filterRuns[1][1].apiKey # filterRuns[1][2].apiKey

\* C12: with status 'active' the filtered list holds exactly the items passing
\* the search and prefix tests whose disabled flag is false, with 'disabled'
\* exactly those whose flag is true, with 'all' all of them; the list of an
\* enabled record followed by a disabled one filtered by 'active' is the
\* enabled one alone.
C12_StatusFilter ==
    Len(filterRuns) >= 1 =>
        LET items == credentialItems
            out == {filterRuns[1][k] : k \in 1..Len(filterRuns[1])}
            others == {items[i] : i \in {j \in 1..Len(items) :
                                            /\ KeptBySearch(items[j])
                                            /\ KeptByPrefix(items[j])}}
        IN  /\ statusFilter = "active" => out = {it \in others : ~it._disabled}
            /\ statusFilter = "disabled" => out = {it \in others : it._disabled}
            /\ statusFilter = "all" => out = others
            /\ (/\ configs = <<KeyA, KeyB>>
                /\ statusFilter = "active"
                /\ searchText = <<>>
                /\ prefixFilter = <<>>)
                   => /\ Len(filterRuns[1]) = 1
                      /\ filterRuns[1][1].apiKey = KeyA.apiKey
                      /\ filterRuns[1][1]._index = 0

C12_Witness ==
    /\ Len(filterRuns) >= 1
    /\ statusFilter = "disabled"
    /\ Len(configs) = 2
    /\ Len(filterRuns[1]) = 1
    /\ filterRuns[1][1]._index = 1

\* C13: the normalized list has one item per record of the list, in the order
\* of the list: the item at position i holds the fields of the record at
\* position i, the index i (counted from 0), the disabled flag of that record
\* and the usage counters of that record, whatever the usage statistics are.
C13_NormalizeTotal ==
    LET items == credentialItems
    IN  /\ Len(items) = Len(configs)
        /\ \A i \in 1..Len(configs) :
             /\ items[i]._index = i - 1
             /\ SameIdentity(items[i], configs[i])
             /\ items[i].excludedModels = configs[i].excludedModels
             /\ items[i]._disabled = IsDisabled(configs[i])
             /\ items[i]._stats =
                    getStatsBySource(configs[i].apiKey, keyStats, configs[i].prefix)

C13_Witness ==
    /\ Len(filterRuns) >= 1
    /\ filterRuns[1] = credentialItems
    /\ Len(configs) = 2
    /\ configs[1] = configs[2]
    /\ keyStats # <<>>
    /\ credentialItems[2]._stats.failure > 0
    /\ credentialItems[1] # credentialItems[2]

\* C14: the mount effect starts one list load and one usage load when it first
\* runs and nothing when it runs again: the guard stays set once set, nothing is
\* in flight before it is set, and from then on a load is started only by a
\* handleRefresh call, which starts one of each.
C14_InitialLoadOnce ==
    /\ [](~hasMounted => (loads = 0 /\ statsLoads = 0))
    /\ [][/\ hasMounted => hasMounted'
          /\ (~hasMounted /\ hasMounted')
                => /\ loads' = loads + 1
                   /\ statsLoads' = statsLoads + 1
                   /\ refreshes' = refreshes
          /\ (hasMounted /\ (loads' > loads \/ statsLoads' > statsLoads))
                => /\ Len(refreshes') = Len(refreshes) + 1
                   /\ loads' = loads + 1
                   /\ statsLoads' = statsLoads + 1]_vars

C14_Witness ==
    /\ hasMounted
    /\ loads = 0
    /\ statsLoads = 0
    /\ refreshes = <<>>
    /\ rejection = None
    /\ ~loading
    /\ configs # <<>>
    /\ keyStats # <<>>

C16_LoadOrderIndependent ==
    [][/\ (statsLoads' < statsLoads)
             => UNCHANGED <<config, configs, loading, error, loads>>
       /\ (loads' < loads)
             => /\ UNCHANGED <<keyStats, statsLoads, refreshAlls>>
                /\ configs' \in {configs, OrElse(config', <<>>)}]_vars

C16_Witness ==
    /\ hasMounted
    /\ loads = 1
    /\ statsLoads = 0
    /\ refreshes = <<>>
    /\ rejection = None
    /\ loading
    /\ config = None
    /\ keyStats # <<>>

\* C17: handleRefresh starts one list load and one usage load in the same step
\* and ends only in a step after which both of them have settled, whether the
\* list load failed or not; a load a handleRefresh awaits is in flight.
C17_RefreshJoin ==
    /\ [](/\ Cardinality(Awaiting("list")) <= loads
          /\ Cardinality(Awaiting("stats")) <= statsLoads)
    /\ [][/\ (Len(refreshes') > Len(refreshes))
                => /\ refreshes' = Append(refreshes, Join(FALSE, FALSE))
                   /\ loads' = loads + 1
                   /\ statsLoads' = statsLoads + 1
          /\ (Len(refreshes') < Len(refreshes))
                => \E j \in 1..Len(refreshes) :
                      /\ refreshes' = RemoveAt(refreshes, j)
                      /\ refreshes[j].list \/ loads' < loads
                      /\ refreshes[j].stats \/ statsLoads' < statsLoads]_vars

C17_Witness ==
    /\ lastCall = "loadConfigs:rejected"
    /\ refreshes = <<Join(TRUE, FALSE)>>
    /\ loads = 0
    /\ statsLoads = 1
    /\ error # ""

\* the call in flight that this step settles, if any
Settling == {call \in InFlight :
                \E i \in 1..Len(saves) : saves[i] = call /\ saves' = RemoveAt(saves, i)}

Accepting == lastCall' \in {"toggleConfig", "batchToggle"} /\ Len(saves') > Len(saves)

\* C18: the saving flag is set exactly while a persistence call is in flight:
\* set by the step that accepts a toggle or a batch toggle, kept by every step
\* that does not settle the call, and cleared by the step that settles it,
\* resolved or rejected; when every call settles in the end, a set flag is
\* cleared in the end.
C18_SaveFlagLifetime ==
    /\ [](saving <=> saves # <<>>)
    /\ [][/\ Accepting => (~saving /\ saving')
          /\ (saving /\ Settling = {}) => saving'
          /\ (Settling # {}) => ~saving']_vars
    /\ (saving ~> ~saving)

C18_Witness ==
    /\ lastCall = "batchToggle:settled"
    /\ rejection # None
    /\ ~saving
    /\ saves = <<>>
    /\ configs # <<>>

\* C19: an accepted toggleConfig emits nothing when it is called and one
\* notification when its persistence call settles: of type success when the
\* call resolved, of type error and carrying what the call was rejected with
\* when it was rejected; no other step emits a notification.
C19_ToggleNotification ==
    [][/\ (emitted' # <<>>) => Settling # {}
       /\ \A call \in Settling :
            call.kind = "single" =>
                /\ Len(emitted') = 1
                /\ IF rejection' = None
                   THEN /\ emitted'[1].type = "success"
                        /\ emitted'[1].message =
                              (IF call.enabled THEN "config_enabled" ELSE "config_disabled")
                   ELSE /\ emitted'[1].type = "error"
                        /\ emitted'[1].message = "update_failed"
                        /\ emitted'[1].detail = rejection'.val.message]_vars

\* C20: a persistence call is issued only by the step that accepts a toggle or
\* a batch toggle, one call per accepted request; the step that settles a call,
\* resolved or rejected, and the step in which a list load fails issue no
\* call and start no load; once mounted the page starts a load only with a
\* refresh request.
C20_NoRetry ==
    [][/\ (Len(saves') > Len(saves))
             => /\ lastCall' \in {"toggleConfig", "batchToggle"}
                /\ Len(saves') = Len(saves) + 1
                /\ SubSeq(saves', 1, Len(saves)) = saves
       /\ (lastCall' \in {"toggleConfig:settled", "batchToggle:settled"})
             => /\ Settling # {}
                /\ loads' = loads
                /\ statsLoads' = statsLoads
       /\ (lastCall' = "loadConfigs:rejected")
             => /\ loads' = loads - 1
                /\ statsLoads' = statsLoads
                /\ saves' = saves
       /\ (hasMounted /\ (loads' > loads \/ statsLoads' > statsLoads))
             => Len(refreshes') > Len(refreshes)]_vars

C20_Witness ==
    /\ lastCall = "toggleConfig:settled"
    /\ rejection # None
    /\ saves = <<>>
    /\ loads = 0
    /\ error # ""
    /\ configs # <<>>

\* the chart has one entry per item of the normalized list, in its order, with
\* the item's usage counters
ChartCoversList ==
    LET items == credentialItems
    IN  /\ Len(chartData.labels) = Len(items)
        /\ Len(chartData.success) = Len(items)
        /\ Len(chartData.failure) = Len(items)
        /\ \A i \in 1..Len(items) :
             /\ chartData.success[i] = items[i]._stats.success
             /\ chartData.failure[i] = items[i]._stats.failure

\* C21 as stated: the chart has one entry per item of the normalized list, in
\* its order, and every label is the masked key of its item.
C21_ChartMaskedLabels ==
    /\ ChartCoversList
    /\ \A i \in 1..Len(credentialItems) :
         chartData.labels[i] = maskApiKey(credentialItems[i].apiKey)

\* C21: the chart has one entry per item of the normalized list, in its order;
\* the label of an item with a non-empty prefix is that prefix as it is stored,
\* and the label of any other item is its masked key.
C21_ChartLabels ==
    /\ ChartCoversList
    /\ \A i \in 1..Len(credentialItems) :
         LET item == credentialItems[i]
         IN  chartData.labels[i] =
                IF item.prefix = None \/ item.prefix = Some(<<>>)
                THEN maskApiKey(item.apiKey)
                ELSE item.prefix.val

C21_Witness ==
    /\ Len(filterRuns) >= 1
    /\ configs = <<KeyA, KeyB>>
    /\ keyStats # <<>>
    /\ chartData.labels = << <<"A", "*">>, <<" ", "p">> >>
    /\ chartData.success = <<1, 2>>
    /\ chartData.failure = <<1, 1>>

\* C22: when the list shown is no longer the one a toggleConfig or batchToggle
\* put there (a load or the config sync has replaced it while the persistence
\* call was in flight) and the call then fails, the list and the config store
\* after the continuation are the list shown when the handler was called, not
\* the replacement.
C22_RollbackOverReplacement ==
    [][\A call \in InFlight :
         (SettledWith(call, "error") /\ configs # call.nextList)
             => /\ configs' = call.listAtCall
                /\ config' = Some(call.listAtCall)]_vars

C22_Witness ==
    /\ Len(saves) = 1
    /\ saving
    /\ configs # saves[1].nextList
    /\ configs # saves[1].listAtCall
    /\ Len(configs) > Len(saves[1].listAtCall)

\* C23 as stated: every selected index is the index of a record of the list,
\* and the count an accepted batchToggle reports is the number of records of
\* the list that it targets.
C23_SelectionValid ==
    /\ [](\A k \in selectedKeys : k < Len(configs))
    /\ [][(lastCall' = "batchToggle" /\ Len(saves') > Len(saves))
             => saves'[Len(saves')].count =
                    Cardinality({k \in selectedKeys : k < Len(configs)})]_vars

\* C24: a toggleConfig that passes its guard and issues no persistence call
\* (its index has no record in the list) leaves the saving flag cleared, the
\* list, the config store and the selection as they were and emits nothing; a
\* toggleConfig that passes its guard with the index of a record issues a call.
C24_MissingIndex ==
    [][(lastCall' = "toggleConfig" /\ ~disableControls /\ ~saving)
          => IF saves' = saves
             THEN /\ saving' = FALSE
                  /\ UNCHANGED <<config, configs, selectedKeys, loading, error, loads>>
                  /\ emitted' = <<>>
             ELSE /\ Len(saves') = Len(saves) + 1
                  /\ saves'[Len(saves')].index < Len(configs)
                  /\ saving']_vars

C24_Witness ==
    /\ lastCall = "toggleConfig"
    /\ ~disableControls
    /\ ~saving
    /\ saves = <<>>
    /\ configs # <<>>
    /\ selectedKeys # {}

\* C25: handleRefreshAll clears the cache and starts the forced config fetch
\* and the header-refresh trigger together; nothing is notified while either
\* of the two is pending; the step in which the second of them settles emits
\* exactly one notification, the error notification if at least one of the two
\* was rejected and the success notification otherwise.
C25_RefreshAll ==
    [][/\ (Len(refreshAlls') > Len(refreshAlls))
             => /\ cleared' = <<"all">>
                /\ refreshAlls' = Append(refreshAlls, RefreshAll(Pending, Pending))
                /\ emitted' = <<>>
       /\ (Len(refreshAlls') >= Len(refreshAlls)) => emitted' = <<>>
       /\ (Len(refreshAlls') < Len(refreshAlls))
             => \E j \in 1..Len(refreshAlls) :
                    LET call == refreshAlls[j]
                        anyRejected == \/ call.fetch.status = "rejected"
                                       \/ call.trigger.status = "rejected"
                                       \/ rejection'.some
                    IN  /\ refreshAlls' = RemoveAt(refreshAlls, j)
                        /\ (call.fetch = Pending) # (call.trigger = Pending)
                        /\ Len(emitted') = 1
                        /\ emitted'[1].type =
                               IF anyRejected THEN "error" ELSE "success"
                        /\ emitted'[1].message =
                               IF anyRejected THEN "refresh_failed"
                               ELSE "data_refreshed"]_vars

\* of two calls in flight, one whose fetch had been fulfilled has just had its
\* trigger rejected and has notified the failure with the reason's text
C25_Witness ==
    /\ Len(refreshAlls) = 1
    /\ refreshAlls[1].fetch = Fulfilled
    /\ rejection = Some(Reason("string", "busy"))
    /\ config = None
    /\ emitted = <<Notification("refresh_failed", "error", 0, "busy")>>

====
